---- MODULE Spec2Model ----
(***************************************************************************)
(* docker-retag (src/main.go): point a tag of a remote repository at the   *)
(* manifest a source image reference resolves to.                          *)
(*                                                                         *)
(* The registry is the tag-to-digest mapping of the one repository the     *)
(* source reference names ("app").  One invocation of the command line is  *)
(* main -> retagImage; it is cut into steps at its registry calls, so the  *)
(* program counter pc says which statement of retagImage runs next.  The   *)
(* call of crane.Tag is two steps, the get of the source's manifest and    *)
(* the put under the new tag, and another process may act between them.    *)
(***************************************************************************)
EXTENDS Integers, Sequences, FiniteSets, TLC

\* ------------------------------------------------------------------ bounds
\* invocations of the command line in one behaviour
MaxRuns == 2
\* longest run of consecutive transient failures the registry answers with
MaxTransient == 2
\* the attempt cap N of the retry policy the documentation describes
AttemptCap == 3

\* ------------------------------------------------------- registry contents
Tags == {"build", "prod", "latest"}
\* manifests stored in the repository, named by digest
Manifests == {"sha256:aaaaa01", "sha256:aaaaa02", "sha256:bbbbb03"}
\* a tag the repository does not have
Absent == "absent"
\* the zero value of v1.Hash (var destDigest v1.Hash)
ZeroHash == "zerohash"

Registries == [Tags -> Manifests \cup {Absent}]

\* v1.Hash.String(): algorithm ":" hex, as a sequence of characters
HashString(h) ==
    CASE h = "sha256:aaaaa01" ->
           <<"s","h","a","2","5","6",":","a","a","a","a","a","0","1">>
      [] h = "sha256:aaaaa02" ->
           <<"s","h","a","2","5","6",":","a","a","a","a","a","0","2">>
      [] h = "sha256:bbbbb03" ->
           <<"s","h","a","2","5","6",":","b","b","b","b","b","0","3">>
      [] OTHER -> <<":">>

\* configFile.Created.Time of a stored image, in seconds; 0 is the zero
\* time.Time of a config that has no creation time
Created(d) ==
    CASE d = "sha256:aaaaa01" -> 1700
      [] d = "sha256:bbbbb03" -> 1800
      [] OTHER -> 0

\* ------------------------------------------------------------ command line
SourceStrs == {"app:build", "app:prod", "app", "app@sha256:aaaaa01", "APP:build"}

ArgLists ==
    {<<s>> : s \in SourceStrs}
    \cup {<<s, t>> : s \in SourceStrs, t \in Tags}
    \cup {<<s, t, t>> : s \in {"app:build"}, t \in {"prod"}}

NoRef == [kind |-> "none", repo |-> "", id |-> ""]

\* the source strings name.ParseReference accepts
WellFormedStrs == {"app:build", "app:prod", "app", "app@sha256:aaaaa01"}

\* the reference a well-formed string names: repository, and a tag ("latest"
\* when the string names none) or a digest
RefOf(s) ==
    CASE s = "app:build" -> [kind |-> "tag", repo |-> "app", id |-> "build"]
      [] s = "app:prod" -> [kind |-> "tag", repo |-> "app", id |-> "prod"]
      [] s = "app" -> [kind |-> "tag", repo |-> "app", id |-> "latest"]
      [] s = "app@sha256:aaaaa01" ->
           [kind |-> "digest", repo |-> "app", id |-> "sha256:aaaaa01"]
      [] OTHER -> NoRef

\* a parser that folds the case of the repository instead of rejecting it
ParseReferenceLax(s) ==
    [err |-> FALSE,
     ref |-> IF s \in WellFormedStrs THEN RefOf(s)
             ELSE [kind |-> "tag", repo |-> "app", id |-> "build"]]

\* name.ParseReference: the reference, or an error for a malformed string
ParseReference(s) ==
    IF s \in WellFormedStrs
    THEN [err |-> FALSE, ref |-> RefOf(s)]
    ELSE [err |-> TRUE, ref |-> NoRef]

\* sourceRef.Context().Tag(newTag): the source's repository, the new tag
NewRef(ref, tag) == [kind |-> "tag", repo |-> ref.repo, id |-> tag]

\* ---------------------------------------------------------------- registry
\* the digest a reference resolves to in registry reg
Resolve(reg, ref) ==
    IF ref.kind = "digest"
    THEN (IF ref.id \in Manifests THEN ref.id ELSE Absent)
    ELSE reg[ref.id]

\* the registry's definitive answer to a manifest lookup
Lookup(reg, ref) == IF Resolve(reg, ref) = Absent THEN "NotFound" ELSE "Found"

\* a client call wrapped in a loop that tries again after every error
RegistryCallRetryAll(k, perm, truth) ==
    [outcome  |-> IF k > 0 THEN "TransientFailure"
                  ELSE IF perm THEN "PermanentFailure" ELSE truth,
     attempts |-> IF k > 0 \/ perm \/ truth = "NotFound" THEN AttemptCap ELSE 1]

\* One call of the registry client by retagImage.  The registry answers the
\* first k attempts with a transient failure and then definitively: with a
\* permanent failure when perm, with truth otherwise.  retagImage makes the
\* call once and takes what it returns.
RegistryCall(k, perm, truth) ==
    [outcome  |-> IF k > 0 THEN "TransientFailure"
                  ELSE IF perm THEN "PermanentFailure" ELSE truth,
     attempts |-> 1]

\* ------------------------------------------------------------------- state
VARIABLES
    registry,        \* tag -> digest, or Absent
    pc,              \* the step of the invocation
    args, dryRun,    \* positional arguments and the --dry-run flag
    sourceRef, newRef,
    sourceDigest, sourceTimestamp,
    destDigest, destTimestamp,
    err,             \* the err of the destination fetch (main.go:70)
    stdout, stderr,
    exitCode,        \* the exit status, -1 while the process runs
    calls,           \* registry calls this invocation has made, in order
    regStart,        \* the registry when the invocation started
    runs,            \* invocations started so far
    desc,            \* the manifest crane.Tag got and has still to put
    tagWrite,        \* what the tag write replaced and what it put
    peer             \* a second invocation, running at the same time

vars == <<registry, pc, args, dryRun, sourceRef, newRef, sourceDigest,
          sourceTimestamp, destDigest, destTimestamp, err, stdout, stderr,
          exitCode, calls, regStart, runs, desc, tagWrite, peer>>

locals == <<sourceRef, newRef, sourceDigest, sourceTimestamp, destDigest,
            destTimestamp, err>>

sourceImageStr == args[1]
newTag == args[2]

\* --------------------------------------------------------------- reporting
\* a digest printed in full
formatDigestFull(d) == HashString(d)

\* formatDigest: the first 12 characters of the digest string
formatDigest(d) ==
    LET digestStr == HashString(d)
    IN  IF Len(digestStr) > 12 THEN SubSeq(digestStr, 1, 12) ELSE digestStr

\* t.Format("2006-01-02 15:04:05") of a time t seconds after the epoch
Format(t) ==
    CASE t = 1700 -> "1970-01-01 00:28:20"
      [] t = 1800 -> "1970-01-01 00:30:00"
      [] OTHER -> "1970-01-01 00:00:01"

\* formatTime: "unknown" for the zero time, the formatted time otherwise
formatTime(t) == IF t = 0 THEN "unknown" ELSE Format(t)

Line(marker, text, subject, source, target) ==
    [marker |-> marker, text |-> text, subject |-> subject,
     source |-> source, target |-> target]

FailLine(text, subject) == Line("[FAIL]", text, subject, <<>>, <<>>)

Details(t, d) == <<formatTime(t), formatDigest(d)>>

\* a failure path that reports and does not leave the statement it is in
FailContinues(text, subject) ==
    /\ stderr' = Append(stderr, FailLine(text, subject))
    /\ exitCode' = 1
    /\ pc' = pc
    /\ UNCHANGED stdout

\* os.Exit(1) after a [FAIL] line on the error stream
Fail(text, subject) ==
    /\ stderr' = Append(stderr, FailLine(text, subject))
    /\ exitCode' = 1
    /\ pc' = "done"
    /\ UNCHANGED stdout

\* crane.Tag holds no manifest: before its get, and after it has returned
NoDesc == "none"

NoWrite == [replaced |-> "none", written |-> "none"]

\* the second invocation before it is started
PeerOff ==
    [pc |-> "off", args |-> <<>>, dryRun |-> FALSE,
     sourceDigest |-> ZeroHash, destDigest |-> ZeroHash, err |-> "nil",
     destOutcome |-> "none", exitCode |-> -1, report |-> "none",
     desc |-> NoDesc, writes |-> 0, written |-> "none"]

\* ------------------------------------------------------------------- Init
Init ==
    /\ registry \in Registries
    /\ pc = "idle"
    /\ args = <<>>
    /\ dryRun = FALSE
    /\ sourceRef = NoRef
    /\ newRef = NoRef
    /\ sourceDigest = ZeroHash
    /\ sourceTimestamp = 0
    /\ destDigest = ZeroHash
    /\ destTimestamp = 0
    /\ err = "nil"
    /\ stdout = <<>>
    /\ stderr = <<>>
    /\ exitCode = -1
    /\ calls = <<>>
    /\ regStart = registry
    /\ runs = 0
    /\ desc = NoDesc
    /\ tagWrite = NoWrite
    /\ peer = PeerOff

\* ---------------------------------------------------------------- actions
\* main: cobra checks cobra.ExactArgs(2) and binds --dry-run, then runs
\* retagImage; a wrong argument count makes Execute return an error
Invoke ==
    /\ pc = "idle"
    /\ runs < MaxRuns
    /\ \E a \in ArgLists, d \in BOOLEAN :
         /\ args' = a
         /\ dryRun' = d
         /\ IF Len(a) = 2
            THEN /\ pc' = "ResolvingReferences"
                 /\ UNCHANGED <<stderr, exitCode>>
            ELSE /\ pc' = "done"
                 /\ stderr' = <<Line("Error:", "accepts 2 arg(s)", "", <<>>, <<>>)>>
                 /\ exitCode' = 1
    /\ runs' = runs + 1
    /\ regStart' = registry
    /\ UNCHANGED <<registry, locals, stdout, calls>>
    /\ UNCHANGED <<desc, tagWrite, peer>>

\* main.go:51-59
ResolveReferences ==
    /\ pc = "ResolvingReferences"
    /\ LET p == ParseReference(sourceImageStr)
       IN  IF p.err
           THEN /\ Fail("Invalid source image reference", sourceImageStr)
                /\ UNCHANGED <<sourceRef, newRef>>
           ELSE /\ sourceRef' = p.ref
                /\ newRef' = NewRef(p.ref, newTag)
                /\ pc' = "FetchingSource"
                /\ UNCHANGED <<stdout, stderr, exitCode>>
    /\ UNCHANGED <<registry, args, dryRun, sourceDigest, sourceTimestamp,
                   destDigest, destTimestamp, err, calls, regStart, runs>>
    /\ UNCHANGED <<desc, tagWrite, peer>>

\* a call of the registry client, as recorded in calls
Call(name, ref, k, r) ==
    [call |-> name, ref |-> ref, failures |-> k,
     outcome |-> r.outcome, attempts |-> r.attempts]

\* getImageDetails: the digest and the creation time of the image's config
getImageDetails(img) == [digest |-> img.digest, created |-> Created(img.digest)]

\* getImageDetails discards the error of img.ConfigFile() and reads through
\* the config pointer: a config that cannot be fetched is a nil dereference,
\* and the Go runtime ends the process with status 2
Panic ==
    /\ stderr' = Append(stderr, Line("panic:", "nil pointer dereference", "", <<>>, <<>>))
    /\ exitCode' = 2
    /\ pc' = "done"
    /\ UNCHANGED stdout

\* a source fetch whose "not found" is taken for "nothing there yet"
SourceNotFoundTolerated(outcome) == outcome \notin {"Found", "NotFound"}

\* a source fetch whose error is never looked at
SourceFetchIgnored(outcome) == FALSE

\* main.go:63, the source fetch "MUST succeed": any error is fatal
SourceFetchFailed(outcome) == outcome # "Found"

\* main.go:61-67, step 1
FetchSource ==
    /\ pc = "FetchingSource"
    /\ \E k \in 0..MaxTransient, perm \in BOOLEAN, configOk \in BOOLEAN :
         LET r   == RegistryCall(k, perm, Lookup(registry, sourceRef))
             img == [digest |-> Resolve(registry, sourceRef), configOk |-> configOk]
         IN  /\ calls' = Append(calls, Call("FetchSource", sourceRef, k, r))
             /\ IF SourceFetchFailed(r.outcome)
                THEN /\ Fail("Source image not found or inaccessible", sourceImageStr)
                     /\ UNCHANGED <<sourceDigest, sourceTimestamp>>
                ELSE IF ~img.configOk
                THEN /\ Panic
                     /\ UNCHANGED <<sourceDigest, sourceTimestamp>>
                ELSE /\ sourceDigest' = getImageDetails(img).digest
                     /\ sourceTimestamp' = getImageDetails(img).created
                     /\ pc' = "FetchingDestination"
                     /\ UNCHANGED <<stdout, stderr, exitCode>>
    /\ UNCHANGED <<registry, args, dryRun, sourceRef, newRef, destDigest,
                   destTimestamp, err, regStart, runs>>
    /\ UNCHANGED <<desc, tagWrite, peer>>

\* main.go:70, the err the destination fetch leaves: nil when an image came
\* back, the error otherwise, whatever its kind
DestFetchErr(outcome) == IF outcome = "Found" THEN "nil" ELSE outcome

\* main.go:69-75, step 2
FetchDestination ==
    /\ pc = "FetchingDestination"
    /\ \E k \in 0..MaxTransient, perm \in BOOLEAN, configOk \in BOOLEAN :
         LET r   == RegistryCall(k, perm, Lookup(registry, newRef))
             img == [digest |-> Resolve(registry, newRef), configOk |-> configOk]
             e   == DestFetchErr(r.outcome)
         IN  /\ calls' = Append(calls, Call("FetchDestination", newRef, k, r))
             /\ err' = e
             /\ IF e = "nil" /\ ~img.configOk
                THEN /\ Panic
                     /\ UNCHANGED <<destDigest, destTimestamp>>
                ELSE /\ IF e = "nil"
                        THEN /\ destDigest' = getImageDetails(img).digest
                             /\ destTimestamp' = getImageDetails(img).created
                        ELSE UNCHANGED <<destDigest, destTimestamp>>
                     /\ pc' = "Deciding"
                     /\ UNCHANGED <<stdout, stderr, exitCode>>
    /\ UNCHANGED <<registry, args, dryRun, sourceRef, newRef, sourceDigest,
                   sourceTimestamp, regStart, runs>>
    /\ UNCHANGED <<desc, tagWrite, peer>>

\* an idempotency check that also wants the source's creation time known
AlreadyCorrectNeedsTime(e, sd, dd) ==
    e = "nil" /\ HashString(sd) = HashString(dd) /\ Created(sd) # 0

\* main.go:78, the idempotency check
AlreadyCorrect(e, sd, dd) == e = "nil" /\ HashString(sd) = HashString(dd)

\* a dry-run flag that is parsed and never consulted
DryRunIgnored(d) == FALSE

\* main.go:84, dry-run mode returns before the tag operation
DryRunReturns(d) == d

\* return from retagImage: Execute returns nil and main ends with status 0
Succeed(line) ==
    /\ stdout' = Append(stdout, line)
    /\ exitCode' = 0
    /\ pc' = "done"
    /\ UNCHANGED stderr

\* main.go:77-93, steps 3 and 4
Decide ==
    /\ pc = "Deciding"
    /\ IF AlreadyCorrect(err, sourceDigest, destDigest)
       THEN Succeed(Line("[OK]", "already points to the correct image", newTag,
                         Details(sourceTimestamp, sourceDigest), <<>>))
       ELSE IF DryRunReturns(dryRun)
       THEN IF err = "nil"
            THEN Succeed(Line("[DRY-RUN]", "Would point tag to new image", newTag,
                              Details(sourceTimestamp, sourceDigest),
                              Details(destTimestamp, destDigest)))
            ELSE Succeed(Line("[DRY-RUN]", "Would create tag pointing to image", newTag,
                              Details(sourceTimestamp, sourceDigest), <<>>))
       ELSE /\ pc' = "Writing"
            /\ UNCHANGED <<stdout, stderr, exitCode>>
    /\ UNCHANGED <<registry, args, dryRun, locals, calls, regStart, runs>>
    /\ UNCHANGED <<desc, tagWrite, peer>>

\* a tag operation that puts the manifest under the source's own tag
TagTargetSwapped(s, tag) ==
    NewRef(ParseReference(s).ref,
           IF ParseReference(s).ref.kind = "tag" THEN ParseReference(s).ref.id ELSE tag)

\* a tag operation that drops the new tag and falls back to the default one
TagTargetLatest(s, tag) == NewRef(ParseReference(s).ref, "latest")

\* crane.Tag(sourceImageStr, newTag): parse the source string, get the
\* manifest it names now, and put it under the new tag of its repository
TagTarget(s, tag) == NewRef(ParseReference(s).ref, tag)

\* main.go:96, step 5, first half.  crane.Tag parses the source string and
\* gets the manifest it names now; an error of the get is the error of
\* crane.Tag, and nothing has been written.
TagGet ==
    /\ pc = "Writing"
    /\ desc = NoDesc
    /\ \E k \in 0..MaxTransient, perm \in BOOLEAN :
         LET src    == ParseReference(sourceImageStr).ref
             dst    == TagTarget(sourceImageStr, newTag)
             digest == Resolve(registry, src)
             r      == RegistryCall(k, perm, IF digest = Absent THEN "NotFound" ELSE "OK")
         IN  IF r.outcome = "OK"
             THEN /\ desc' = digest
                  /\ UNCHANGED <<pc, calls, stdout, stderr, exitCode>>
             ELSE /\ calls' = Append(calls, Call("Tag", dst, k, r))
                  /\ Fail("Failed to point tag to new image", newTag)
                  /\ UNCHANGED desc
    /\ UNCHANGED <<registry, args, dryRun, locals, regStart, runs, tagWrite, peer>>

\* main.go:95-99, step 5, second half.  crane.Tag puts the manifest it got
\* under the new tag and returns; the registry may have changed since the
\* get.  A put the registry answers with a transient failure may or may not
\* have been applied.
TagPut ==
    /\ pc = "Writing"
    /\ desc # NoDesc
    /\ \E k \in 0..MaxTransient, perm \in BOOLEAN, applied \in BOOLEAN :
         LET dst == TagTarget(sourceImageStr, newTag)
             r   == RegistryCall(k, perm, "OK")
         IN  /\ calls' = Append(calls, Call("Tag", dst, k, r))
             /\ IF r.outcome = "OK"
                THEN /\ registry' = [registry EXCEPT ![dst.id] = desc]
                     /\ tagWrite' = [replaced |-> registry[dst.id], written |-> desc]
                     /\ pc' = "FinalReporting"
                     /\ UNCHANGED <<stdout, stderr, exitCode>>
                ELSE /\ IF r.outcome = "TransientFailure" /\ applied
                        THEN /\ registry' = [registry EXCEPT ![dst.id] = desc]
                             /\ tagWrite' = [replaced |-> registry[dst.id],
                                             written |-> desc]
                        ELSE UNCHANGED <<registry, tagWrite>>
                     /\ Fail("Failed to point tag to new image", newTag)
    /\ desc' = NoDesc
    /\ UNCHANGED <<args, dryRun, locals, regStart, runs, peer>>

\* a final message that names the target whether or not one was fetched
fromMsgAlways(e, t, d) == Details(t, d)

\* main.go:102-105: the previous image is named when the destination fetch
\* returned one
fromMsg(e, t, d) == IF e = "nil" THEN Details(t, d) ELSE <<>>

\* main.go:101-106, step 6
FinalReport ==
    /\ pc = "FinalReporting"
    /\ Succeed(Line("[OK]", "Successfully pointed tag to new image", newTag,
                    Details(sourceTimestamp, sourceDigest),
                    fromMsg(err, destTimestamp, destDigest)))
    /\ UNCHANGED <<registry, args, dryRun, locals, calls, regStart, runs>>
    /\ UNCHANGED <<desc, tagWrite, peer>>

\* the process has ended; everything but the registry is discarded
ProcessExit ==
    /\ pc = "done"
    /\ runs < MaxRuns
    /\ pc' = "idle"
    /\ args' = <<>>
    /\ dryRun' = FALSE
    /\ sourceRef' = NoRef
    /\ newRef' = NoRef
    /\ sourceDigest' = ZeroHash
    /\ sourceTimestamp' = 0
    /\ destDigest' = ZeroHash
    /\ destTimestamp' = 0
    /\ err' = "nil"
    /\ stdout' = <<>>
    /\ stderr' = <<>>
    /\ exitCode' = -1
    /\ calls' = <<>>
    /\ regStart' = registry
    /\ desc' = NoDesc
    /\ tagWrite' = NoWrite
    /\ UNCHANGED <<registry, runs, peer>>

\* ------------------------------------------------- the second invocation
\* Another process running the same program against the same registry.  It
\* takes the steps of retagImage in the same order; of its output only the
\* exit status and the kind of its one line are kept.
PeerArgLists == {<<"app", "prod">>, <<"app@sha256:aaaaa01", "build">>}

invocation == <<pc, args, dryRun, locals, stdout, stderr, exitCode, calls,
                regStart, runs, desc, tagWrite>>

peerSourceRef == ParseReference(peer.args[1]).ref
peerNewRef == NewRef(peerSourceRef, peer.args[2])

\* the second invocation ends with a status and a line
PeerEnd(code, report) ==
    [peer EXCEPT !.pc = "done", !.exitCode = code, !.report = report]

\* main and main.go:51-59
PeerInvoke ==
    /\ peer.pc = "off"
    /\ \E a \in PeerArgLists, d \in BOOLEAN :
         peer' = IF ParseReference(a[1]).err
                 THEN [PeerEnd(1, "[FAIL]") EXCEPT !.args = a, !.dryRun = d]
                 ELSE [peer EXCEPT !.pc = "FetchingSource", !.args = a, !.dryRun = d]
    /\ UNCHANGED <<registry, invocation>>

\* main.go:61-67, step 1
PeerFetchSource ==
    /\ peer.pc = "FetchingSource"
    /\ \E k \in 0..MaxTransient, perm \in BOOLEAN, configOk \in BOOLEAN :
         LET r == RegistryCall(k, perm, Lookup(registry, peerSourceRef))
         IN  peer' = IF SourceFetchFailed(r.outcome) THEN PeerEnd(1, "[FAIL]")
                     ELSE IF ~configOk THEN PeerEnd(2, "panic:")
                     ELSE [peer EXCEPT !.pc = "FetchingDestination",
                                       !.sourceDigest = Resolve(registry, peerSourceRef)]
    /\ UNCHANGED <<registry, invocation>>

\* main.go:69-75, step 2
PeerFetchDestination ==
    /\ peer.pc = "FetchingDestination"
    /\ \E k \in 0..MaxTransient, perm \in BOOLEAN, configOk \in BOOLEAN :
         LET r == RegistryCall(k, perm, Lookup(registry, peerNewRef))
             e == DestFetchErr(r.outcome)
         IN  peer' = IF e = "nil" /\ ~configOk
                     THEN [PeerEnd(2, "panic:") EXCEPT !.destOutcome = r.outcome]
                     ELSE [peer EXCEPT !.pc = "Deciding",
                                       !.err = e,
                                       !.destOutcome = r.outcome,
                                       !.destDigest = IF e = "nil"
                                                      THEN Resolve(registry, peerNewRef)
                                                      ELSE @]
    /\ UNCHANGED <<registry, invocation>>

\* main.go:77-93, steps 3 and 4
PeerDecide ==
    /\ peer.pc = "Deciding"
    /\ peer' = IF AlreadyCorrect(peer.err, peer.sourceDigest, peer.destDigest)
               THEN PeerEnd(0, "already points to the correct image")
               ELSE IF DryRunReturns(peer.dryRun)
               THEN PeerEnd(0, IF peer.err = "nil"
                               THEN "Would point tag to new image"
                               ELSE "Would create tag pointing to image")
               ELSE [peer EXCEPT !.pc = "Writing"]
    /\ UNCHANGED <<registry, invocation>>

\* main.go:96, step 5, first half: crane.Tag gets the source's manifest
PeerTagGet ==
    /\ peer.pc = "Writing"
    /\ peer.desc = NoDesc
    /\ \E k \in 0..MaxTransient, perm \in BOOLEAN :
         LET digest == Resolve(registry, peerSourceRef)
             r      == RegistryCall(k, perm, IF digest = Absent THEN "NotFound" ELSE "OK")
         IN  peer' = IF r.outcome = "OK"
                     THEN [peer EXCEPT !.desc = digest]
                     ELSE [PeerEnd(1, "[FAIL]") EXCEPT !.writes = @ + 1]
    /\ UNCHANGED <<registry, invocation>>

\* main.go:95-106, step 5, second half, and step 6: crane.Tag puts the
\* manifest it got under the new tag
PeerTagPut ==
    /\ peer.pc = "Writing"
    /\ peer.desc # NoDesc
    /\ \E k \in 0..MaxTransient, perm \in BOOLEAN, applied \in BOOLEAN :
         LET dst == TagTarget(peer.args[1], peer.args[2])
             r   == RegistryCall(k, perm, "OK")
         IN  IF r.outcome = "OK"
             THEN /\ registry' = [registry EXCEPT ![dst.id] = peer.desc]
                  /\ peer' = [PeerEnd(0, "Successfully pointed tag to new image")
                                EXCEPT !.desc = NoDesc, !.writes = @ + 1,
                                       !.written = peer.desc]
             ELSE /\ registry' = IF r.outcome = "TransientFailure" /\ applied
                                 THEN [registry EXCEPT ![dst.id] = peer.desc]
                                 ELSE registry
                  /\ peer' = [PeerEnd(1, "[FAIL]") EXCEPT !.desc = NoDesc,
                                                          !.writes = @ + 1]
    /\ UNCHANGED invocation

Next ==
    \/ Invoke
    \/ ResolveReferences
    \/ FetchSource
    \/ FetchDestination
    \/ Decide
    \/ TagGet
    \/ TagPut
    \/ FinalReport
    \/ ProcessExit

Spec == Init /\ [][Next]_vars

\* the statements of retagImage; a started process runs them to its end,
\* each registry call returning
Step ==
    \/ ResolveReferences
    \/ FetchSource
    \/ FetchDestination
    \/ Decide
    \/ TagGet
    \/ TagPut
    \/ FinalReport

FairSpec == Init /\ [][Next]_vars /\ WF_vars(Step)

\* two invocations at the same time: the first, started once, and the
\* second
RaceNext ==
    \/ Invoke
    \/ ResolveReferences
    \/ FetchSource
    \/ FetchDestination
    \/ Decide
    \/ TagGet
    \/ TagPut
    \/ FinalReport
    \/ PeerInvoke
    \/ PeerFetchSource
    \/ PeerFetchDestination
    \/ PeerDecide
    \/ PeerTagGet
    \/ PeerTagPut

RaceSpec == Init /\ [][RaceNext]_vars

TypeOK ==
    /\ registry \in Registries
    /\ pc \in {"idle", "ResolvingReferences", "FetchingSource", "FetchingDestination",
               "Deciding", "Writing", "FinalReporting", "done"}
    /\ dryRun \in BOOLEAN
    /\ exitCode \in {-1, 0, 1, 2}
    /\ runs \in 0..MaxRuns
    /\ desc \in Manifests \cup {NoDesc}
    /\ desc # NoDesc => pc = "Writing"

\* ------------------------------------------------- what an invocation did
CallsOf(name) == {i \in DOMAIN calls : calls[i].call = name}

\* tag-write calls issued by the invocation
WriteCalls == Cardinality(CallsOf("Tag"))

OutcomeOf(name) ==
    IF CallsOf(name) = {} THEN "none"
    ELSE calls[CHOOSE i \in CallsOf(name) : TRUE].outcome

SrcOutcome == OutcomeOf("FetchSource")
DestOutcome == OutcomeOf("FetchDestination")
TagOutcome == OutcomeOf("Tag")

Terminated == pc = "done"

\* retagImage ran with a source string that names a reference
Parsed == Len(args) = 2 /\ args[1] \in WellFormedStrs

\* retagImage ran with a source string that names none
InvalidReference == Len(args) = 2 /\ args[1] \notin WellFormedStrs

NoOpLine ==
    Line("[OK]", "already points to the correct image", newTag,
         Details(sourceTimestamp, sourceDigest), <<>>)

\* the decision of the idempotency evaluator, as the specification defines
\* it from the destination outcome, the two digests and the dry-run flag
Decision ==
    IF DestOutcome = "Found" /\ HashString(sourceDigest) = HashString(destDigest)
    THEN "NoOpAlreadyCorrect"
    ELSE IF DestOutcome = "NotFound"
    THEN (IF dryRun THEN "WouldCreate" ELSE "Create")
    ELSE IF DestOutcome = "Found"
    THEN (IF dryRun THEN "WouldOverwrite" ELSE "Overwrite")
    ELSE "none"

\* the invocation got past the decision: it reported or it wrote
Decided == Len(stdout) > 0 \/ WriteCalls > 0

\* ------------------------------------------------------------------ claims

\* C1 (as claimed): when the destination tag already points at the digest
\*   the source resolves to, an invocation issues no tag-write call, leaves
\*   the registry as it was, and a success it reports is the no-op one.
C1_Idempotence ==
    (/\ Parsed
     /\ Resolve(regStart, RefOf(args[1])) # Absent
     /\ regStart[args[2]] = Resolve(regStart, RefOf(args[1])))
    => /\ WriteCalls = 0
       /\ registry = regStart
       /\ (Terminated /\ exitCode = 0 => stdout = <<NoOpLine>>)

\* C2: a dry-run invocation issues no tag-write call and leaves the
\*   registry's tag-to-digest mapping as it was, whatever the fetches return.
C2_DryRunNonMutation ==
    dryRun => (WriteCalls = 0 /\ registry = regStart)

\* a dry-run invocation previewed an overwrite or a creation
C2_Witness ==
    /\ Terminated /\ dryRun /\ exitCode = 0
    /\ Len(stdout) = 1 /\ stdout[1].marker = "[DRY-RUN]"
    /\ DestOutcome \in {"Found", "PermanentFailure"}

\* C3 (as claimed): the tag writer is invoked only when the decision is
\*   Create or Overwrite, and an invocation that got past the decision with
\*   Create or Overwrite has invoked it.
C3_WriterIffCreateOrOverwrite ==
    /\ WriteCalls > 0 => Decision \in {"Create", "Overwrite"}
    /\ (Decided /\ Decision \in {"Create", "Overwrite"}) => WriteCalls > 0

C5_NotFoundClassification ==
    /\ DestOutcome = "NotFound" =>
          /\ pc \in {"Deciding", "Writing", "FinalReporting", "done"}
          /\ (Terminated /\ dryRun =>
                /\ exitCode = 0
                /\ stdout[1].text = "Would create tag pointing to image")
          /\ (Terminated /\ ~dryRun =>
                /\ WriteCalls = 1
                /\ (exitCode = 0 <=> TagOutcome = "OK"))
    /\ SrcOutcome = "NotFound" =>
          /\ Terminated /\ exitCode = 1
          /\ Len(calls) = 1
          /\ Len(stderr) = 1 /\ stderr[1].marker = "[FAIL]"
          /\ stdout = <<>>

\* a live run whose destination tag did not exist created it and succeeded
C5_Witness ==
    /\ Terminated /\ ~dryRun /\ exitCode = 0
    /\ DestOutcome = "NotFound" /\ TagOutcome = "OK"
    /\ regStart[newTag] = Absent /\ registry[newTag] # Absent

\* C6 (as claimed): a destination fetch that fails with anything but "not
\*   found" is fatal: no tag write is issued and the invocation ends with a
\*   non-zero exit status.
C6_DestFailureFatal ==
    DestOutcome \in {"TransientFailure", "PermanentFailure"} =>
        /\ WriteCalls = 0
        /\ pc \notin {"Writing", "FinalReporting"}
        /\ (Terminated => exitCode # 0)

\* the source fetch of step 1 was made and did not deliver the image's
\* details: the image was not returned, or its config could not be read
SourceDetailsMissing == SrcOutcome # "none" /\ sourceDigest \notin Manifests

\* the destination fetch of step 2 returned, and delivered the details of
\* the image it found
DestinationFetched ==
    /\ DestOutcome # "none"
    /\ DestOutcome = "Found" => destDigest \in Manifests

\* C7 (as claimed): an invocation that ends in a successful write, a no-op
\*   or a dry-run preview exits 0 with exactly one line on the standard
\*   stream, marked [OK] or [DRY-RUN]; one that ends on an invalid
\*   reference, a failed source fetch or a failed tag write exits non-zero
\*   with a [FAIL] line on the error stream and nothing on the standard
\*   stream.
C7_ExitStatusAndMarkers ==
    Terminated =>
        /\ (/\ DestinationFetched
            /\ \/ AlreadyCorrect(err, sourceDigest, destDigest)
               \/ dryRun
               \/ TagOutcome = "OK")
           => /\ exitCode = 0
              /\ Len(stdout) = 1
              /\ stdout[1].marker \in {"[OK]", "[DRY-RUN]"}
              /\ stderr = <<>>
        /\ (\/ InvalidReference
            \/ SourceDetailsMissing
            \/ TagOutcome \notin {"none", "OK"})
           => /\ exitCode # 0
              /\ \E i \in DOMAIN stderr : stderr[i].marker = "[FAIL]"
              /\ stdout = <<>>

\* C8: an invocation that fails on an invalid reference or on the source
\*   fetch has issued no tag write, and the destination tag (with the rest
\*   of the registry) is what it was when the invocation started.
C8_FailureBeforeWriteLeavesTag ==
    (Terminated /\ (InvalidReference \/ SrcOutcome \notin {"none", "Found"}))
    => /\ WriteCalls = 0
       /\ registry[newTag] = regStart[newTag]
       /\ registry = regStart

\* a live run to an existing tag failed on the source fetch
C8_Witness ==
    /\ Terminated /\ ~dryRun /\ exitCode = 1
    /\ SrcOutcome \in {"TransientFailure", "PermanentFailure", "NotFound"}
    /\ regStart[newTag] # Absent

\* C9: an invocation changes no tag but the destination (the new tag in the
\*   source's repository), and what the source reference resolves to is what
\*   it was when the invocation started.
C9_Frame ==
    /\ Len(args) # 2 => registry = regStart
    /\ Len(args) = 2 =>
          \A t \in Tags : t # newTag => registry[t] = regStart[t]
    /\ Parsed =>
          Resolve(registry, RefOf(args[1])) = Resolve(regStart, RefOf(args[1]))

\* a write moved the destination tag, and it is not the last tag in the set
C9_Witness ==
    /\ Terminated /\ exitCode = 0 /\ TagOutcome = "OK"
    /\ registry[newTag] # regStart[newTag]
    /\ newTag # "latest"

\* C10: a source string that cannot be parsed ends the invocation Failed at
\*   the reference step: no source fetch, no destination fetch, no tag write.
C10_InvalidReferenceNoContact ==
    InvalidReference =>
        /\ calls = <<>>
        /\ pc \in {"ResolvingReferences", "done"}
        /\ registry = regStart
        /\ (Terminated =>
              /\ exitCode = 1
              /\ stderr = <<FailLine("Invalid source image reference", args[1])>>
              /\ stdout = <<>>)

\* the unparseable source string was reported and the process ended
C10_Witness ==
    /\ InvalidReference /\ Terminated /\ exitCode = 1 /\ calls = <<>>

\* the digest the source string resolved to when the invocation started
SourceAtStart == Resolve(regStart, RefOf(args[1]))

C12_WritePostcondition ==
    TagOutcome = "OK" =>
        /\ ~dryRun
        /\ sourceDigest \in Manifests
        /\ sourceDigest = SourceAtStart
        /\ registry[newTag] = sourceDigest

\* a live run overwrote a tag that pointed at another digest
C12_Witness ==
    /\ Terminated /\ exitCode = 0 /\ TagOutcome = "OK"
    /\ DestOutcome = "Found"
    /\ regStart[newTag] \notin {Absent, sourceDigest}
    /\ registry[newTag] = sourceDigest

\* the rendering of an image in a report: creation time and digest
Rendered(d) == Details(Created(d), d)

\* C14: the one line a successful invocation prints is the no-op
\*   confirmation when the destination was found with the source's digest;
\*   in a dry run the creation preview with the source only when the
\*   destination was not found, and the overwrite preview with source and
\*   target when it was found with another digest; after a live write the
\*   success message, which names the target exactly when the destination
\*   fetch had found one.
C14_ReportShape ==
    (Terminated /\ exitCode = 0) =>
        LET found == DestOutcome = "Found"
            equal == regStart[newTag] = SourceAtStart
            out   == stdout[1]
        IN  /\ Len(stdout) = 1
            /\ out.subject = newTag
            /\ out.source = Rendered(SourceAtStart)
            /\ (found /\ equal) =>
                  /\ out.marker = "[OK]"
                  /\ out.text = "already points to the correct image"
                  /\ out.target = <<>>
            /\ (dryRun /\ DestOutcome = "NotFound") =>
                  /\ out.marker = "[DRY-RUN]"
                  /\ out.text = "Would create tag pointing to image"
                  /\ out.target = <<>>
            /\ (dryRun /\ found /\ ~equal) =>
                  /\ out.marker = "[DRY-RUN]"
                  /\ out.text = "Would point tag to new image"
                  /\ out.target = Rendered(regStart[newTag])
            /\ (~dryRun /\ ~(found /\ equal)) =>
                  /\ TagOutcome = "OK"
                  /\ out.marker = "[OK]"
                  /\ out.text = "Successfully pointed tag to new image"
                  /\ (out.target # <<>> <=> found)
                  /\ (found => out.target = Rendered(regStart[newTag]))

\* a dry run previewed the overwrite of a tag with a differently rendered
\* digest
C14_Witness ==
    /\ Terminated /\ exitCode = 0 /\ dryRun
    /\ DestOutcome = "Found"
    /\ stdout[1].text = "Would point tag to new image"
    /\ stdout[1].target # <<>>
    /\ stdout[1].target[2] # stdout[1].source[2]

\* C18: an invocation makes at most one source fetch, at most one
\*   destination fetch and at most one tag-write call, and a tag write that
\*   failed is the last registry call of an invocation that has ended.
C18_OperationCount ==
    /\ Cardinality(CallsOf("FetchSource")) <= 1
    /\ Cardinality(CallsOf("FetchDestination")) <= 1
    /\ Cardinality(CallsOf("Tag")) <= 1
    /\ \A i \in CallsOf("Tag") :
          calls[i].outcome # "OK" => (i = Len(calls) /\ Terminated)

\* a failed tag write was the third and last registry call
C18_Witness ==
    /\ Terminated /\ exitCode = 1
    /\ TagOutcome = "TransientFailure"
    /\ Len(calls) = 3

\* the first n characters of s, all of s when it has no more than n
Prefix(s, n) == [i \in 1..(IF Len(s) > n THEN n ELSE Len(s)) |-> s[i]]

\* C19: a digest is rendered as the first 12 characters of its string, or
\*   the whole string when that has 12 characters or fewer; a zero creation
\*   time is rendered "unknown" and no other time is; an image without a
\*   creation time is fetched like any other, and the run fails only where
\*   a run with a creation time fails.
C19_AuditRendering ==
    /\ \A h \in Manifests \cup {ZeroHash} :
          formatDigest(h) = Prefix(HashString(h), 12)
    /\ \A d \in Manifests \cup {ZeroHash} :
          (formatTime(Created(d)) = "unknown") <=> (Created(d) = 0)
    /\ (Terminated /\ exitCode = 0) =>
          /\ stdout[1].source[2] = Prefix(HashString(SourceAtStart), 12)
          /\ (stdout[1].source[1] = "unknown") <=> (Created(SourceAtStart) = 0)
          /\ stdout[1].target # <<>> =>
                /\ stdout[1].target[2] = Prefix(HashString(regStart[newTag]), 12)
                /\ (stdout[1].target[1] = "unknown")
                      <=> (Created(regStart[newTag]) = 0)
    /\ (SrcOutcome = "Found" /\ sourceTimestamp = 0 /\ exitCode = 1) =>
          TagOutcome \notin {"none", "OK"}

\* a source image without a creation time was promoted and reported with
\* "unknown" and a 12-character digest
C19_Witness ==
    /\ Terminated /\ exitCode = 0 /\ TagOutcome = "OK"
    /\ sourceDigest \in Manifests /\ sourceTimestamp = 0
    /\ stdout[1].source[1] = "unknown"
    /\ Len(stdout[1].source[2]) = 12
    /\ Len(HashString(sourceDigest)) > 12

\* the order in which an invocation moves through its steps
StepOrder ==
    {<<"idle", "ResolvingReferences">>, <<"idle", "done">>,
     <<"ResolvingReferences", "FetchingSource">>, <<"ResolvingReferences", "done">>,
     <<"FetchingSource", "FetchingDestination">>, <<"FetchingSource", "done">>,
     <<"FetchingDestination", "Deciding">>, <<"FetchingDestination", "done">>,
     <<"Deciding", "Writing">>, <<"Deciding", "done">>,
     <<"Writing", "FinalReporting">>, <<"Writing", "done">>,
     <<"FinalReporting", "done">>,
     <<"done", "idle">>}

\* C13: an invocation moves through resolving, source fetch, destination
\*   fetch, decision, then the dry-run report or the write followed by the
\*   final report, leaving that order only to end; a tag write comes third,
\*   after a source fetch that found the image and a destination fetch that
\*   returned; an ended invocation has either succeeded (status 0, one line
\*   on the standard stream) or failed (non-zero status, one line on the
\*   error stream); and every invocation that started ends.
C13_OrderAndTermination ==
    /\ [][pc' # pc => <<pc, pc'>> \in StepOrder]_vars
    /\ [](WriteCalls > 0 =>
            /\ Len(calls) = 3
            /\ calls[1].call = "FetchSource" /\ calls[1].outcome = "Found"
            /\ calls[2].call = "FetchDestination"
            /\ calls[3].call = "Tag")
    /\ [](Terminated =>
            /\ exitCode \in {0, 1, 2}
            /\ exitCode = 0 => (Len(stdout) = 1 /\ stderr = <<>>)
            /\ exitCode # 0 => (stdout = <<>> /\ Len(stderr) = 1))
    /\ (pc = "ResolvingReferences" ~> Terminated)

\* a live run went through every step and ended in success
C13_Witness ==
    /\ Terminated /\ exitCode = 0
    /\ Len(calls) = 3 /\ calls[3].call = "Tag" /\ calls[3].outcome = "OK"
    /\ Len(stdout) = 1

\* a reference no write to tag dest can repoint
Immutable(ref, dest) == ref.kind = "digest" \/ ref.id # dest

\* two live invocations on the same destination tag, from sources that the
\* writes cannot repoint and that name different digests
RaceCase ==
    /\ Parsed /\ ~dryRun
    /\ peer.pc # "off" /\ ~peer.dryRun
    /\ peer.args[2] = args[2]
    /\ Immutable(RefOf(args[1]), args[2])
    /\ Immutable(peerSourceRef, args[2])
    /\ SourceAtStart # Resolve(regStart, peerSourceRef)

BothSucceeded ==
    /\ Terminated /\ exitCode = 0
    /\ peer.pc = "done" /\ peer.exitCode = 0

\* C15: when two live invocations with different source digests A and B
\*   retag the same destination and both end in success, the tag points at
\*   A or at B.
C15_LastWriterWins ==
    (RaceCase /\ BothSucceeded) =>
        registry[args[2]] \in {SourceAtStart, Resolve(regStart, peerSourceRef)}

\* both succeeded, and the first invocation's write replaced the digest the
\* second had just put, not the one it had read and reports as the target
C15_Witness ==
    /\ RaceCase /\ BothSucceeded
    /\ TagOutcome = "OK" /\ err = "nil"
    /\ tagWrite.written = SourceAtStart
    /\ tagWrite.replaced = peer.written
    /\ tagWrite.replaced # destDigest
    /\ stdout[1].target = Rendered(destDigest)
    /\ registry[args[2]] = SourceAtStart

\* the branch of retagImage an ended invocation took
Branch == IF WriteCalls > 0 THEN "write" ELSE stdout[1].text
PeerBranch == IF peer.writes > 0 THEN "write" ELSE peer.report

\* both invocations got past the decision, with the same destination
\* outcome, the same answer to "are the two digest strings equal" and the
\* same dry-run flag
SameDecisionInputs ==
    /\ Terminated /\ exitCode # 2 /\ DestOutcome # "none"
    /\ peer.pc = "done" /\ peer.exitCode # 2 /\ peer.destOutcome # "none"
    /\ DestOutcome = peer.destOutcome
    /\ (HashString(sourceDigest) = HashString(destDigest))
         <=> (HashString(peer.sourceDigest) = HashString(peer.destDigest))
    /\ dryRun <=> peer.dryRun

\* C16: two invocations that agree on the destination fetch outcome, on
\*   whether the two digest strings are equal and on the dry-run flag take
\*   the same branch and issue the same number of tag writes, whatever
\*   their tag names and creation times.
C16_DecisionInputs ==
    SameDecisionInputs =>
        /\ Branch = PeerBranch
        /\ WriteCalls = peer.writes

\* two no-op runs on different tags, one source with a creation time and
\* one without
C16_Witness ==
    /\ SameDecisionInputs
    /\ args[2] # peer.args[2]
    /\ sourceDigest # peer.sourceDigest
    /\ sourceTimestamp = 0 /\ Created(peer.sourceDigest) # 0
    /\ Branch = "already points to the correct image"
    /\ PeerBranch = Branch

\* C17 (as claimed): the digest the tag write puts under the destination
\*   tag is the digest the source fetch returned, which is the one compared
\*   and printed.
C17_FetchedIsWritten ==
    TagOutcome = "OK" => tagWrite.written = sourceDigest
====
